---- MODULE Spec2Model ----
(***************************************************************************)
(* State-machine model of jaclang/plugin.py: the PluginManager registry,   *)
(* the per-hook HookCaller and its dispatch, and the entry-point loader.   *)
(*                                                                         *)
(* Python dicts are modelled as functions whose DOMAIN is the set of keys  *)
(* present (insertion order of dict items is not modelled).  Python None   *)
(* is the string None.  Plugin objects are modelled by their identity.     *)
(***************************************************************************)
EXTENDS Integers, Sequences, FiniteSets, TLC

None == "None"

\* ---------------------------------------------------------------- universe
\* Plugin objects (identities).  p1 and p2 are two instances of one class "A",
\* p3 is an instance of class "B".
Plugins == {"p1", "p2", "p3"}

\* type(plugin).__name__ / plugin.__name__ as read by _canonical_name.
TypeName == [p \in Plugins |-> IF p = "p3" THEN "B" ELSE "A"]

\* Hook names.
Hooks == {"h", "g"}

\* Members of each plugin that carry the _jac_hookimpl marker.
Marked == [p \in Plugins |-> IF p = "p3" THEN {"h", "g"} ELSE {"h"}]

\* Explicit names a caller may pass; None is "no name given".
Names == {"A", "B"}
NameArgs == Names \cup {None}

\* What one hook implementation does when it is called: it returns None,
\* returns its value, or raises.  Each plugin's implementations return a
\* value of their own, so results can be told apart.
Raise == "Raise"
Value == "value"
ValueOf == [p \in Plugins |-> "r_" \o p]
Outcomes == {None, Value, Raise}

\* The marked members as callables: what inspect.signature reports for the
\* bound method (sig_ok FALSE: it raises ValueError/TypeError) and the code
\* object behind it (has_code FALSE: there is no __code__).
\*   p1.h(self, a, /, x, *rest, z)      p3.h(self, x, **kwargs)
\*   p2.h: no signature, code object of h(self, y) with one local
\*   p3.g: no signature, no code object
Param(name, kind) == [name |-> name, kind |-> kind]
NoCode == [has_code |-> FALSE, co_argcount |-> 0, co_kwonlyargcount |-> 0,
           co_varnames |-> <<>>]
Function(sig_ok, params, code) ==
  [sig_ok |-> sig_ok, params |-> params, code |-> code]
MethodOf(plugin, attr_name) ==
  IF plugin = "p1" THEN
    Function(TRUE, << Param("a", "POSITIONAL_ONLY"),
                      Param("x", "POSITIONAL_OR_KEYWORD"),
                      Param("rest", "VAR_POSITIONAL"),
                      Param("z", "KEYWORD_ONLY") >>,
             [has_code |-> TRUE, co_argcount |-> 3, co_kwonlyargcount |-> 1,
              co_varnames |-> <<"self", "a", "x", "z", "rest">>])
  ELSE IF plugin = "p2" THEN
    Function(FALSE, <<>>,
             [has_code |-> TRUE, co_argcount |-> 2, co_kwonlyargcount |-> 0,
              co_varnames |-> <<"self", "y", "tmp">>])
  ELSE IF attr_name = "h" THEN
    Function(TRUE, << Param("x", "POSITIONAL_OR_KEYWORD"),
                      Param("kwargs", "VAR_KEYWORD") >>,
             [has_code |-> TRUE, co_argcount |-> 2, co_kwonlyargcount |-> 0,
              co_varnames |-> <<"self", "x", "kwargs">>])
  ELSE Function(FALSE, <<>>, NoCode)

\* Keyword arguments a host may pass to a hook: a dict over these keys.
Keys == {"x", "y"}
ArgValues == {1, 2}
KwargDicts == UNION {[S -> ArgValues] : S \in SUBSET Keys}

\* Installed distributions and their advertised entry points, in the order
\* importlib.metadata yields them.  obj is what ep.load() returns.
InstalledEps ==
  << [dist |-> "d1", group |-> "jac",   name |-> "A", obj |-> "p1"],
     [dist |-> "d1", group |-> "jac",   name |-> "B", obj |-> "p1"],
     [dist |-> "d2", group |-> "other", name |-> "A", obj |-> "p3"] >>
Groups == {"jac", "other"}

\* Bound on the length of _plugin_distinfo (it only ever grows).
MaxDistInfo == 2

\* ---------------------------------------------------------------- dicts
EmptyDict == [k \in {} |-> None]

\* d.get(k) / d.get(k, None)
DictGet(d, k) == IF k \in DOMAIN d THEN d[k] ELSE None

\* d[k] = v
DictSet(d, k, v) == [x \in DOMAIN d \cup {k} |-> IF x = k THEN v ELSE d[x]]

\* d.pop(k, None), the remaining dict
DictPop(d, k) == [x \in DOMAIN d \ {k} |-> d[x]]

\* reversed(seq)
Reversed(s) == [i \in 1..Len(s) |-> s[Len(s) + 1 - i]]

\* ---------------------------------------------------------------- HookCaller
\* The argnames of a HookImpl: a tuple of names, or None ("pass everything"),
\* held as a record so that both can be compared.
ACCEPT_ALL == [accept_all |-> TRUE, names |-> <<>>]
ArgNames(names) == [accept_all |-> FALSE, names |-> names]

\* _get_argnames
get_argnames(func) ==
  IF func.sig_ok
    THEN IF \E i \in 1..Len(func.params) : func.params[i].kind = "VAR_KEYWORD"
           THEN ACCEPT_ALL
           ELSE LET keep == SelectSeq(func.params, LAMBDA q :
                              q.kind \in {"POSITIONAL_OR_KEYWORD",
                                          "KEYWORD_ONLY"})
                IN ArgNames([i \in 1..Len(keep) |-> keep[i].name])
  ELSE IF func.code.has_code
    THEN ArgNames(SubSeq(func.code.co_varnames, 1,
                         func.code.co_argcount + func.code.co_kwonlyargcount))
  ELSE ACCEPT_ALL

\* HookCaller.__init__
HookCaller(name, firstresult) ==
  [name |-> name, hookimpls |-> <<>>, firstresult |-> firstresult]

\* HookImpl.__init__ (function is the plugin's bound method; the record keeps
\* what the model reads of it, its argnames)
HookImpl(function, plugin, plugin_name) ==
  [plugin |-> plugin, plugin_name |-> plugin_name,
   argnames |-> get_argnames(function)]

\* (variant: the new record is put at the front of the list)
add_hookimpl_front(hc, impl) == [hc EXCEPT !.hookimpls = <<impl>> \o @]

\* HookCaller._add_hookimpl
add_hookimpl(hc, impl) == [hc EXCEPT !.hookimpls = Append(@, impl)]

\* (variant: records are matched by the plugin's canonical name, not identity)
remove_plugin_by_name(hc, plugin) ==
  [hc EXCEPT !.hookimpls =
     SelectSeq(@, LAMBDA i : i.plugin_name # TypeName[plugin])]

\* HookCaller._remove_plugin
remove_plugin(hc, plugin) ==
  [hc EXCEPT !.hookimpls = SelectSeq(@, LAMBDA i : i.plugin # plugin)]

\* (variant: every implementation is handed the full keyword-argument set)
impl_kwargs_all(impl, kwargs) == kwargs

\* HookCaller._call_impl: the keyword arguments impl.function is called with.
impl_kwargs(impl, kwargs) ==
  IF impl.argnames = ACCEPT_ALL
    THEN kwargs
    ELSE [name \in {impl.argnames.names[i] : i \in 1..Len(impl.argnames.names)}
                     \cap DOMAIN kwargs |-> kwargs[name]]

\* (variant: an exception of the implementation is caught and read as None)
call_impl_swallow(impl, rv) ==
  IF rv[impl.plugin] = Value THEN ValueOf[impl.plugin] ELSE None

\* HookCaller._call_impl: the outcome of calling impl.function; rv gives what
\* each plugin's implementation does in this dispatch.
call_impl(impl, rv) ==
  IF rv[impl.plugin] = Value THEN ValueOf[impl.plugin] ELSE rv[impl.plugin]

\* The result of a call is [kind, val]: kind "value" is a single value-or-None,
\* "list" a list of values, "count" an integer, "raise" an exception leaving
\* the call (val then names its origin).

\* The collect-all loop of HookCaller.__call__.
RECURSIVE CallAll(_, _, _, _, _)
CallAll(its, i, rv, results, called) ==
  IF i > Len(its) THEN [kind |-> "list", val |-> results, called |-> called]
  ELSE LET result == call_impl(its[i], rv)
           now == Append(called, its[i].plugin)
       IN IF result = Raise
            THEN [kind |-> "raise", val |-> its[i].plugin, called |-> now]
          ELSE CallAll(its, i + 1, rv,
                       IF result # None THEN Append(results, result) ELSE results,
                       now)

\* The firstresult loop of HookCaller.__call__ over the reversed list `its`,
\* from position i; called accumulates the plugins invoked so far.
\* (variant: the firstresult loop does not stop at the first non-null result;
\* it calls every implementation and then returns the first non-null one)
CallFirst_all(its, i, rv, called) ==
  LET r == CallAll(its, i, rv, <<>>, called)
  IN IF r.kind = "raise" THEN r
     ELSE [kind |-> "value",
           val |-> IF Len(r.val) > 0 THEN r.val[1] ELSE None,
           called |-> r.called]

RECURSIVE CallFirst(_, _, _, _)
CallFirst(its, i, rv, called) ==
  IF i > Len(its) THEN [kind |-> "value", val |-> None, called |-> called]
  ELSE LET result == call_impl(its[i], rv)
           now == Append(called, its[i].plugin)
       IN IF result = Raise
            THEN [kind |-> "raise", val |-> its[i].plugin, called |-> now]
          ELSE IF result # None
            THEN [kind |-> "value", val |-> result, called |-> now]
          ELSE CallFirst(its, i + 1, rv, now)

\* (variant: the firstresult loop walks the list in registration order)
call_forward(hc, rv) ==
  IF hc.firstresult
    THEN CallFirst(hc.hookimpls, 1, rv, <<>>)
    ELSE CallAll(Reversed(hc.hookimpls), 1, rv, <<>>, <<>>)

\* HookCaller.__call__
call(hc, rv) ==
  IF hc.firstresult
    THEN CallFirst(Reversed(hc.hookimpls), 1, rv, <<>>)
    ELSE CallAll(Reversed(hc.hookimpls), 1, rv, <<>>, <<>>)

\* manager.hook.<name>(**kwargs): attribute lookup on the HookRelay, then the
\* call.  A name with no HookCaller raises AttributeError.
dispatch(M, name, rv) ==
  IF name \in DOMAIN M.hook
    THEN call(M.hook[name], rv)
    ELSE [kind |-> "raise", val |-> "AttributeError", called |-> <<>>]

\* ---------------------------------------------------------------- PluginManager
\* _canonical_name
canonical_name(plugin) == TypeName[plugin]

\* PluginManager.__init__
NewManager ==
  [name2plugin |-> EmptyDict, plugin2name |-> EmptyDict,
   plugin_distinfo |-> <<>>, hook |-> EmptyDict]

\* PluginManager.register past the already-registered check: bind the name,
\* then wire every marked member into its HookCaller.
register_new(M, plugin, plugin_name) ==
  LET impl(a) == HookImpl(MethodOf(plugin, a), plugin, plugin_name)
      hk == [a \in DOMAIN M.hook \cup Marked[plugin] |->
               IF a \in Marked[plugin]
                 THEN add_hookimpl(IF a \in DOMAIN M.hook THEN M.hook[a]
                                   ELSE HookCaller(a, FALSE), impl(a))
                 ELSE M.hook[a]]
  IN [pm |-> [M EXCEPT !.name2plugin = DictSet(@, plugin_name, plugin),
                       !.plugin2name = DictSet(@, plugin, plugin_name),
                       !.hook = hk],
      ret |-> plugin_name]

\* (variant: no already-registered check)
register_nocheck(M, plugin, name) ==
  register_new(M, plugin,
               IF name = None \/ name = "" THEN canonical_name(plugin) ELSE name)

\* PluginManager.register
register(M, plugin, name) ==
  LET plugin_name == IF name = None \/ name = "" THEN canonical_name(plugin)
                     ELSE name
  IN IF plugin \in DOMAIN M.plugin2name
       THEN [pm |-> M, ret |-> None]
       ELSE register_new(M, plugin, plugin_name)

\* (variant: the records in the HookCallers are left in place)
unregister_target_keepimpls(M, target, name) ==
  LET plugin_name == DictGet(M.plugin2name, target)
      n2p1 == IF plugin_name # None
                THEN DictPop(M.name2plugin, plugin_name)
                ELSE M.name2plugin
      n2p2 == IF name # None /\ name # plugin_name
                THEN DictPop(n2p1, name) ELSE n2p1
  IN [pm |-> [M EXCEPT !.plugin2name = DictPop(@, target),
                       !.name2plugin = n2p2],
      ret |-> target]

\* PluginManager.unregister once the target plugin object is known: drop its
\* identity and name bindings, then its records in every HookCaller.
unregister_target(M, target, name) ==
  LET plugin_name == DictGet(M.plugin2name, target)
      n2p1 == IF plugin_name # None
                THEN DictPop(M.name2plugin, plugin_name)
                ELSE M.name2plugin
      n2p2 == IF name # None /\ name # plugin_name
                THEN DictPop(n2p1, name) ELSE n2p1
  IN [pm |-> [M EXCEPT !.plugin2name = DictPop(@, target),
                       !.name2plugin = n2p2,
                       !.hook = [a \in DOMAIN M.hook |->
                                   remove_plugin(M.hook[a], target)]],
      ret |-> target]

\* (variant: HookCallers left without implementations are deleted)
unregister_prune(M, plugin, name) ==
  LET target == IF plugin = None /\ name # None
                  THEN DictGet(M.name2plugin, name) ELSE plugin
  IN IF target = None
       THEN [pm |-> M, ret |-> None]
     ELSE
       LET r == unregister_target(M, target, name)
           keep == {a \in DOMAIN r.pm.hook : Len(r.pm.hook[a].hookimpls) > 0}
       IN [pm |-> [r.pm EXCEPT !.hook = [a \in keep |-> r.pm.hook[a]]],
           ret |-> r.ret]

\* PluginManager.unregister
unregister(M, plugin, name) ==
  LET target == IF plugin = None /\ name # None
                  THEN DictGet(M.name2plugin, name) ELSE plugin
  IN IF target = None
       THEN [pm |-> M, ret |-> None]
       ELSE unregister_target(M, target, name)

\* PluginManager.is_registered
is_registered(M, plugin) == plugin \in DOMAIN M.plugin2name

\* PluginManager.list_name_plugin (as a set of pairs)
list_name_plugin(M) == {<<n, M.name2plugin[n]>> : n \in DOMAIN M.name2plugin}

\* PluginManager.list_plugin_distinfo
list_plugin_distinfo(M) == M.plugin_distinfo

\* A spec class: the hook names it marks with _jac_hookspec, each with its
\* firstresult option.
SpecClasses == UNION {[S -> BOOLEAN] : S \in SUBSET Hooks}

\* (variant: an existing HookCaller keeps the policy it was created with)
add_hookspecs_keep(M, spec_class) ==
  [M EXCEPT !.hook =
     [a \in DOMAIN M.hook \cup DOMAIN spec_class |->
        IF a \in DOMAIN M.hook THEN M.hook[a]
        ELSE HookCaller(a, spec_class[a])]]

\* PluginManager.add_hookspecs
add_hookspecs(M, spec_class) ==
  [M EXCEPT !.hook =
     [a \in DOMAIN M.hook \cup DOMAIN spec_class |->
        IF a \in DOMAIN spec_class
          THEN IF a \in DOMAIN M.hook
                 THEN [M.hook[a] EXCEPT !.firstresult = spec_class[a]]
                 ELSE HookCaller(a, spec_class[a])
          ELSE M.hook[a]]]

\* The entry points as one call of the loader meets them: fails tells
\* whether ep.load() raises in this call (failing is the set of their indices).
EntryPoints(failing) ==
  [i \in 1..Len(InstalledEps) |->
     [dist |-> InstalledEps[i].dist, group |-> InstalledEps[i].group,
      name |-> InstalledEps[i].name, obj |-> InstalledEps[i].obj,
      fails |-> i \in failing]]

\* (variant: a failing ep.load() ends the loop instead of going on to the
\* next entry point)
RECURSIVE LoadLoop_break(_, _, _, _, _, _)
LoadLoop_break(eps, M, i, group, count, registered) ==
  IF i > Len(eps)
    THEN [pm |-> M, ret |-> count, registered |-> registered]
  ELSE LET ep == eps[i]
       IN IF ep.group # group
            THEN LoadLoop_break(eps, M, i + 1, group, count, registered)
          ELSE IF ep.name \in DOMAIN M.name2plugin
            THEN LoadLoop_break(eps, M, i + 1, group, count, registered)
          ELSE IF ep.fails
            THEN [pm |-> M, ret |-> count, registered |-> registered]
          ELSE LET r == register(M, ep.obj, ep.name)
                   M2 == [r.pm EXCEPT !.plugin_distinfo =
                                        Append(@, <<ep.obj, ep.dist>>)]
               IN LoadLoop_break(eps, M2, i + 1, group, count + 1,
                                 IF r.ret # None THEN Append(registered, ep.obj)
                                 ELSE registered)

\* The loop of PluginManager.load_setuptools_entrypoints over the entry points
\* eps, from entry point i on.  registered accumulates the plugins for which
\* register returned a name.
RECURSIVE LoadLoop(_, _, _, _, _, _)
LoadLoop(eps, M, i, group, count, registered) ==
  IF i > Len(eps)
    THEN [pm |-> M, ret |-> count, registered |-> registered]
  ELSE LET ep == eps[i]
       IN IF ep.group # group
            THEN LoadLoop(eps, M, i + 1, group, count, registered)
          ELSE IF ep.name \in DOMAIN M.name2plugin
            THEN LoadLoop(eps, M, i + 1, group, count, registered)
          ELSE IF ep.fails
            THEN LoadLoop(eps, M, i + 1, group, count, registered)
          ELSE LET r == register(M, ep.obj, ep.name)
                   M2 == [r.pm EXCEPT !.plugin_distinfo =
                                        Append(@, <<ep.obj, ep.dist>>)]
               IN LoadLoop(eps, M2, i + 1, group, count + 1,
                           IF r.ret # None THEN Append(registered, ep.obj)
                           ELSE registered)

\* PluginManager.load_setuptools_entrypoints
load_setuptools_entrypoints(M, group, fails) ==
  LoadLoop(EntryPoints(fails), M, 1, group, 0, <<>>)

\* ---------------------------------------------------------------- state
VARIABLES
  pm,        \* the PluginManager object
  op,        \* the last call made on the manager and its arguments
  ret,       \* what that call returned (or raised), and what it was seen to do
  regOrder,  \* history: currently registered plugins, oldest registration first
  lastSpec,  \* history: hook name -> firstresult of the latest declaring spec
  kw,        \* the keyword arguments of the last dispatch, and what each
             \* implementation it called was handed
  run        \* the dispatch in progress, when it is followed call by call

vars == <<pm, op, ret, regOrder, lastSpec, kw, run>>

\* A dispatch in progress (HookCaller.__call__ between two calls of an
\* implementation).  list is the content of the list object the reversed()
\* iterator walks, shared tells whether that object is still the HookCaller's
\* _hookimpls, index the position the iterator yields next (0: none left).
\* start, called, outs and results record the implementations present when
\* the dispatch began, the plugins called so far (the last one is running),
\* what each did, and the results collected.
IdleRun ==
  [pc |-> "idle", hook |-> None, firstresult |-> FALSE, list |-> <<>>,
   shared |-> FALSE, index |-> 0, start |-> <<>>, called |-> <<>>,
   outs |-> EmptyDict, results |-> <<>>]

\* (variant: each step indexes the HookCaller's current list, not the list
\* object the loop started on)
iter_list_live(R, M) == M.hook[R.hook].hookimpls

\* The list the iterator of `for impl in reversed(self._hookimpls)` walks.
iter_list(R, M) == R.list

\* next() of the reversed-list iterator: the record at index, if the list
\* still has one there, else the end of the loop.
Advance(R, M) ==
  IF R.index >= 1 /\ R.index <= Len(iter_list(R, M))
    THEN [R EXCEPT !.pc = "impl", !.index = @ - 1,
                   !.called = Append(@, iter_list(R, M)[R.index].plugin)]
    ELSE [R EXCEPT !.pc = "exhausted", !.index = 0]

\* _add_hookimpl appends in place: a loop that still walks the HookCaller's
\* own list object sees the longer list.
after_register(R, M2) ==
  IF R.pc = "impl" /\ R.shared
    THEN [R EXCEPT !.list = M2.hook[R.hook].hookimpls]
    ELSE R

\* _remove_plugin binds _hookimpls to a new list: the loop keeps the old one.
after_unregister(R, rebound) ==
  IF R.pc = "impl" /\ rebound THEN [R EXCEPT !.shared = FALSE] ELSE R

NoKw == [kwargs |-> EmptyDict, received |-> EmptyDict]

NoRv == EmptyDict

Op(o, plugin, name, hookname, spec, group, fails, rv) ==
  [op |-> o, plugin |-> plugin, name |-> name, hook |-> hookname,
   spec |-> spec, group |-> group, fails |-> fails, rv |-> rv]

\* called: the plugins whose implementation the call invoked, in order.
\* changed: the plugins whose is_registered answer the call changed.
Ret(kind, val, called, changed) ==
  [kind |-> kind, val |-> val, called |-> called, changed |-> changed]

Changed(M1, M2) ==
  {p \in Plugins : is_registered(M1, p) # is_registered(M2, p)}

Init ==
  /\ pm = NewManager
  /\ op = Op("init", None, None, None, EmptyDict, None, {}, NoRv)
  /\ ret = Ret("value", None, <<>>, {})
  /\ regOrder = <<>>
  /\ lastSpec = EmptyDict
  /\ kw = NoKw
  /\ run = IdleRun

\* The implementations a dispatch of hookname can reach, and the ways they can
\* behave in one dispatch.
ImplPlugins(hookname) ==
  IF hookname \in DOMAIN pm.hook
    THEN {pm.hook[hookname].hookimpls[i].plugin :
            i \in 1..Len(pm.hook[hookname].hookimpls)}
    ELSE {}
Behaviours(hookname) == [ImplPlugins(hookname) -> Outcomes]

\* host calls manager.register(plugin, name)
Register(plugin, name) ==
  LET r == register(pm, plugin, name)
  IN /\ pm' = r.pm
     /\ op' = Op("register", plugin, name, None, EmptyDict, None, {}, NoRv)
     /\ ret' = Ret("value", r.ret, <<>>, Changed(pm, r.pm))
     /\ regOrder' = IF plugin \in Changed(pm, r.pm)
                      THEN Append(regOrder, plugin) ELSE regOrder
     /\ kw' = NoKw
     /\ run' = after_register(run, r.pm)
     /\ UNCHANGED lastSpec

\* host calls manager.unregister(plugin, name)
Unregister(plugin, name) ==
  LET r == unregister(pm, plugin, name)
  IN /\ pm' = r.pm
     /\ op' = Op("unregister", plugin, name, None, EmptyDict, None, {}, NoRv)
     /\ ret' = Ret("value", r.ret, <<>>, Changed(pm, r.pm))
     /\ regOrder' = SelectSeq(regOrder, LAMBDA q : q \notin Changed(pm, r.pm))
     /\ kw' = NoKw
     /\ run' = after_unregister(run, r.ret # None)
     /\ UNCHANGED lastSpec

\* host calls manager.add_hookspecs(spec_class)
AddHookspecs(spec_class) ==
  /\ pm' = add_hookspecs(pm, spec_class)
  /\ op' = Op("add_hookspecs", None, None, None, spec_class, None, {}, NoRv)
  /\ ret' = Ret("value", None, <<>>, {})
  /\ lastSpec' = [a \in DOMAIN lastSpec \cup DOMAIN spec_class |->
                    IF a \in DOMAIN spec_class THEN spec_class[a]
                    ELSE lastSpec[a]]
  /\ kw' = NoKw
  /\ UNCHANGED <<regOrder, run>>

\* The record of plugin's implementation in the HookCaller hc.
ImplOf(hc, plugin) ==
  hc.hookimpls[CHOOSE i \in 1..Len(hc.hookimpls) :
                 hc.hookimpls[i].plugin = plugin]

\* host calls manager.hook.<hookname>(**kwargs)
DispatchKw(hookname, rv, kwargs) ==
  LET r == dispatch(pm, hookname, rv)
  IN /\ op' = Op("dispatch", None, None, hookname, EmptyDict, None, {}, rv)
     /\ ret' = Ret(r.kind, r.val, r.called, {})
     /\ kw' = [kwargs |-> kwargs,
               received |->
                 [p \in {r.called[i] : i \in 1..Len(r.called)} |->
                    impl_kwargs(ImplOf(pm.hook[hookname], p), kwargs)]]
     /\ UNCHANGED <<pm, regOrder, lastSpec, run>>

\* host calls manager.hook.<hookname>() with no keyword arguments
Dispatch(hookname, rv) == DispatchKw(hookname, rv, EmptyDict)

\* host calls manager.load_setuptools_entrypoints(group)
LoadEntrypoints(group, fails) ==
  LET r == load_setuptools_entrypoints(pm, group, fails)
  IN /\ Len(r.pm.plugin_distinfo) <= MaxDistInfo
     /\ pm' = r.pm
     /\ op' = Op("load", None, None, None, EmptyDict, group, fails, NoRv)
     /\ ret' = Ret("count", r.ret, <<>>, Changed(pm, r.pm))
     /\ regOrder' = regOrder \o r.registered
     /\ kw' = NoKw
     /\ UNCHANGED <<lastSpec, run>>

\* The dispatch R ends: it returns val (kind "value" or "list") or raises.
Finish(R, kind, val) ==
  /\ op' = Op("dispatch", None, None, R.hook, EmptyDict, None, {}, R.outs)
  /\ ret' = Ret(kind, val, R.called, {})
  /\ kw' = [kwargs |-> EmptyDict,
            received |-> [p \in {R.called[i] : i \in 1..Len(R.called)} |->
                            EmptyDict]]
  /\ run' = IdleRun

\* The loop of HookCaller.__call__ moves on: the next implementation is called
\* or, with none left, the dispatch returns.
Continue(R) ==
  LET R2 == Advance(R, pm)
  IN IF R2.pc = "exhausted"
       THEN IF R.firstresult THEN Finish(R2, "value", None)
            ELSE Finish(R2, "list", R.results)
       ELSE run' = R2 /\ UNCHANGED <<op, ret, kw>>

\* host calls manager.hook.<hookname>(): __call__ reads the policy, makes the
\* reversed iterator and calls the first implementation.
BeginDispatch(hookname) ==
  /\ run.pc = "idle"
  /\ hookname \in DOMAIN pm.hook
  /\ LET hc == pm.hook[hookname]
     IN Continue([pc |-> "loop", hook |-> hookname,
                  firstresult |-> hc.firstresult, list |-> hc.hookimpls,
                  shared |-> TRUE, index |-> Len(hc.hookimpls),
                  start |-> [i \in 1..Len(hc.hookimpls) |->
                               hc.hookimpls[i].plugin],
                  called |-> <<>>, outs |-> EmptyDict, results |-> <<>>])
  /\ UNCHANGED <<pm, regOrder, lastSpec>>

\* The running implementation comes back (outcome: what it does); __call__
\* takes its result and goes on with the loop, returns, or lets the error out.
ImplReturn(outcome) ==
  /\ run.pc = "impl"
  /\ LET p == run.called[Len(run.called)]
         result == IF outcome = Value THEN ValueOf[p] ELSE outcome
         R1 == [run EXCEPT !.outs = DictSet(@, p, outcome),
                           !.results = IF ~run.firstresult /\ outcome = Value
                                         THEN Append(@, result) ELSE @]
     IN IF outcome = Raise THEN Finish(R1, "raise", p)
        ELSE IF run.firstresult /\ result # None
          THEN Finish(R1, "value", result)
        ELSE Continue(R1)
  /\ UNCHANGED <<pm, regOrder, lastSpec>>

Next ==
  \/ \E plugin \in Plugins, name \in NameArgs : Register(plugin, name)
  \/ \E plugin \in Plugins \cup {None}, name \in NameArgs :
        Unregister(plugin, name)
  \/ \E spec_class \in SpecClasses : AddHookspecs(spec_class)
  \/ \E hookname \in Hooks : \E rv \in Behaviours(hookname) :
        Dispatch(hookname, rv)

\* The registry and dispatch API.  The entry-point loader changes the tables
\* and the HookCallers only through register, so it adds no state of those
\* that Next does not reach; it is exercised in SpecLoader.
Spec == Init /\ [][Next]_vars

NextLoader ==
  \/ \E plugin \in Plugins, name \in NameArgs : Register(plugin, name)
  \/ \E plugin \in Plugins \cup {None}, name \in NameArgs :
        Unregister(plugin, name)
  \/ \E group \in Groups, fails \in SUBSET (1..Len(InstalledEps)) :
        LoadEntrypoints(group, fails)

SpecLoader == Init /\ [][NextLoader]_vars

\* Dispatch with keyword arguments, over every order of registration (names
\* play no part in it: plugins are registered under their own name and
\* unregistered by object).
NextArgs ==
  \/ \E plugin \in Plugins : Register(plugin, None)
  \/ \E plugin \in Plugins : Unregister(plugin, None)
  \/ \E hookname \in Hooks : \E rv \in Behaviours(hookname) :
        \E kwargs \in KwargDicts : DispatchKw(hookname, rv, kwargs)

SpecArgs == Init /\ [][NextArgs]_vars

\* A dispatch followed call by call.  While an implementation runs (run.pc is
\* "impl") the register, unregister and add_hookspecs calls are calls that
\* implementation makes; otherwise they are the host's.
NextReentrant ==
  \/ \E plugin \in Plugins : Register(plugin, None)
  \/ \E plugin \in Plugins : Unregister(plugin, None)
  \/ \E spec_class \in SpecClasses : AddHookspecs(spec_class)
  \/ \E hookname \in Hooks : BeginDispatch(hookname)
  \/ \E outcome \in Outcomes : ImplReturn(outcome)

SpecReentrant == Init /\ [][NextReentrant]_vars

\* ---------------------------------------------------------------- properties
\* What the registration history says a dispatch must do.

\* s, last element first
LatestFirst(s) == [i \in 1..Len(s) |-> s[Len(s) + 1 - i]]

\* The registered plugins that implement hookname, latest registration first.
Implementers(hookname) ==
  SelectSeq(LatestFirst(regOrder), LAMBDA p : hookname \in Marked[p])

SeqRange(s) == {s[i] : i \in 1..Len(s)}

\* The values the plugins ps return in this dispatch, nulls left out.
RECURSIVE NonNull(_, _)
NonNull(ps, rv) ==
  IF Len(ps) = 0 THEN <<>>
  ELSE (IF rv[Head(ps)] = Value THEN <<ValueOf[Head(ps)]>> ELSE <<>>)
       \o NonNull(Tail(ps), rv)

\* What the first plugin of ps that does not return null does: None if there
\* is none, Raise if it raises, else the value it returns.
RECURSIVE FirstNonNull(_, _)
FirstNonNull(ps, rv) ==
  IF Len(ps) = 0 THEN None
  ELSE IF rv[Head(ps)] = Value THEN ValueOf[Head(ps)]
  ELSE IF rv[Head(ps)] = Raise THEN Raise
  ELSE FirstNonNull(Tail(ps), rv)

IsDispatch == op.op = "dispatch" /\ op.hook \in DOMAIN pm.hook

\* C1: a collect-all dispatch of hook h in which no implementation raises
\* invokes the implementation of every currently registered plugin that
\* implements h, latest registration first, and returns their non-null results
\* in that order, nulls skipped.
C1_CollectAllReverseOrder ==
  (IsDispatch /\ ~pm.hook[op.hook].firstresult
     /\ \A p \in DOMAIN op.rv : op.rv[p] # Raise)
  => /\ SeqRange(Implementers(op.hook)) = DOMAIN op.rv
     /\ ret.called = Implementers(op.hook)
     /\ ret.kind = "list"
     /\ ret.val = NonNull(Implementers(op.hook), op.rv)

\* A collect-all dispatch over three plugins registered p3, p1, p2, where p1
\* returns null: the result is p2's value, then p3's.
C1_Witness ==
  /\ IsDispatch /\ op.hook = "h" /\ ~pm.hook["h"].firstresult
  /\ regOrder = <<"p3", "p1", "p2">>
  /\ ret.kind = "list" /\ ret.val = <<"r_p2", "r_p3">>
  /\ ret.called = <<"p2", "p1", "p3">>

\* C2: a firstresult dispatch returns the value of the most recently
\* registered implementation (of a currently registered plugin) that returns
\* non-null, and null when all return null or there is no implementation.
C2_FirstResult ==
  (IsDispatch /\ pm.hook[op.hook].firstresult)
  => /\ SeqRange(Implementers(op.hook)) = DOMAIN op.rv
     /\ FirstNonNull(Implementers(op.hook), op.rv) # Raise
          => /\ ret.kind = "value"
             /\ ret.val = FirstNonNull(Implementers(op.hook), op.rv)

\* A firstresult dispatch over p1, p3, p2 (registered in that order) where p2
\* returns null and both p3 and p1 return a value: p3's value is returned.
C2_Witness ==
  /\ IsDispatch /\ op.hook = "h" /\ pm.hook["h"].firstresult
  /\ regOrder = <<"p1", "p3", "p2">>
  /\ op.rv = [p \in Plugins |-> IF p = "p2" THEN None ELSE Value]
  /\ ret.kind = "value" /\ ret.val = "r_p3"

\* The plugins of the records a HookCaller holds, in list order.
Owners(hc) == [i \in 1..Len(hc.hookimpls) |-> hc.hookimpls[i].plugin]

\* C3: no two distinct registered plugins hold the same registered name.
C3_NameBoundOnce ==
  \A p, q \in Plugins :
    (is_registered(pm, p) /\ is_registered(pm, q) /\ p # q)
    => pm.plugin2name[p] # pm.plugin2name[q]

\* C4: registering a plugin object that is already registered, under any
\* name, returns null and changes neither table nor any HookCaller; every hook
\* the plugin implements still holds exactly one record of it.
C4_ReRegisterNoOp ==
  [][(op'.op = "register" /\ is_registered(pm, op'.plugin))
     => /\ ret'.val = None
        /\ pm' = pm
        /\ \A a \in Marked[op'.plugin] :
             /\ a \in DOMAIN pm'.hook
             /\ Cardinality({i \in 1..Len(pm'.hook[a].hookimpls) :
                   pm'.hook[a].hookimpls[i].plugin = op'.plugin}) = 1]_vars

\* A registered plugin was registered again under a name that is not its own.
C4_Witness ==
  /\ op.op = "register" /\ ret.val = None /\ ret.changed = {}
  /\ is_registered(pm, op.plugin)
  /\ op.name # None /\ op.name # pm.plugin2name[op.plugin]
  /\ Len(pm.hook["h"].hookimpls) = 2

\* C5: an unregister that returns plugin B removes from every HookCaller
\* exactly the records owned by B; the other records stay, in the same order,
\* and no HookCaller appears or disappears.
C5_UnregisterRemovesExactly ==
  [][(op'.op = "unregister" /\ ret'.val # None)
     => /\ DOMAIN pm'.hook = DOMAIN pm.hook
        /\ \A a \in DOMAIN pm.hook :
             pm'.hook[a].hookimpls =
               SelectSeq(pm.hook[a].hookimpls,
                         LAMBDA r : r.plugin # ret'.val)]_vars

\* p2, registered between p3 and p1, has just been unregistered: hook h holds
\* the records of p3 and p1, in that order.
C5_Witness ==
  /\ op.op = "unregister" /\ ret.val = "p2" /\ ret.changed = {"p2"}
  /\ regOrder = <<"p3", "p1">>
  /\ Owners(pm.hook["h"]) = <<"p3", "p1">>
  /\ Owners(pm.hook["g"]) = <<"p3">>

\* C6: an unregister whose target is no currently registered plugin (its call
\* changed no plugin's registration) returns null.
C6_UnregisterUnknownReturnsNull ==
  (op.op = "unregister" /\ ret.changed = {}) => ret.val = None

\* C7: after an unregister that removed plugin p, p is in neither table, in no
\* HookCaller and not in the distribution-info list.
C7_UnregisterDropsAllReferences ==
  (op.op = "unregister" /\ ret.changed # {})
  => \A p \in ret.changed :
       /\ ~is_registered(pm, p)
       /\ \A n \in DOMAIN pm.name2plugin : pm.name2plugin[n] # p
       /\ \A a \in DOMAIN pm.hook : p \notin SeqRange(Owners(pm.hook[a]))
       /\ \A i \in 1..Len(list_plugin_distinfo(pm)) :
            list_plugin_distinfo(pm)[i][1] # p

\* The policy the latest declaring spec gave a hook; collect-all if none did.
Policy(a) == IF a \in DOMAIN lastSpec THEN lastSpec[a] ELSE FALSE

C8_PolicyIsLatestSpec ==
  /\ DOMAIN lastSpec \subseteq DOMAIN pm.hook
  /\ \A a \in DOMAIN pm.hook : pm.hook[a].firstresult = Policy(a)
  /\ IsDispatch =>
       /\ Policy(op.hook) => ret.kind \in {"value", "raise"}
       /\ ~Policy(op.hook) => ret.kind \in {"list", "raise"}
       /\ ret.kind = "value" =>
            ret.val = FirstNonNull(Implementers(op.hook), op.rv)
       /\ ret.kind = "list" =>
            ret.val = NonNull(Implementers(op.hook), op.rv)

\* C8: every hook's policy, and the policy a dispatch applies, is the
\* firstresult flag of the latest add_hookspecs that declared the hook
\* (collect-all if none did), whatever register/unregister calls came before
\* or after; add_hookspecs leaves every implementation list as it was.
C8_SpecPolicy ==
  /\ []C8_PolicyIsLatestSpec
  /\ [][op'.op = "add_hookspecs"
        => \A a \in DOMAIN pm.hook :
             pm'.hook[a].hookimpls = pm.hook[a].hookimpls]_vars

\* A spec has just declared h firstresult while h already held the
\* implementations of two plugins.
C8_Witness ==
  /\ op.op = "add_hookspecs"
  /\ "h" \in DOMAIN op.spec /\ op.spec["h"]
  /\ pm.hook["h"].firstresult
  /\ Owners(pm.hook["h"]) = <<"p2", "p1">>

C9_EmptyDispatchReturns ==
  (IsDispatch /\ Len(pm.hook[op.hook].hookimpls) = 0)
  => /\ ret.kind # "raise"
     /\ pm.hook[op.hook].firstresult => (ret.kind = "value" /\ ret.val = None)
     /\ ~pm.hook[op.hook].firstresult => (ret.kind = "list" /\ ret.val = <<>>)

\* C9: a dispatch of an existing HookCaller with no implementations does not
\* raise and returns null (firstresult) or the empty list (collect-all); and
\* no step removes a HookCaller, nor does unregister change a policy.
C9_EmptyDispatch ==
  /\ []C9_EmptyDispatchReturns
  /\ [][/\ DOMAIN pm.hook \subseteq DOMAIN pm'.hook
        /\ op'.op = "unregister"
             => \A a \in DOMAIN pm.hook :
                  pm'.hook[a].firstresult = pm.hook[a].firstresult]_vars

\* Hook h was created by a registration (no spec declares it), every plugin
\* has been unregistered since, and a dispatch of h returned the empty list.
C9_Witness ==
  /\ IsDispatch /\ op.hook = "h" /\ "h" \notin DOMAIN lastSpec
  /\ regOrder = <<>>
  /\ ret.kind = "list" /\ ret.val = <<>>

\* C10: the count the entry-point loader returns is the number of plugin
\* objects that became registered during the call.
C10_CountIsNewRegistrations ==
  op.op = "load" => ret.val = Cardinality(ret.changed)

\* The plugins of ps a loop calls when it stops after the first one whose
\* behaviour is in stops (and calls all of ps if there is none).
RECURSIVE UpTo(_, _, _)
UpTo(ps, rv, stops) ==
  IF Len(ps) = 0 THEN <<>>
  ELSE IF rv[Head(ps)] \in stops THEN <<Head(ps)>>
  ELSE <<Head(ps)>> \o UpTo(Tail(ps), rv, stops)

\* The plugins a dispatch of the hook must call, by the registration history
\* and the policy the latest spec declared.
MustCall(a, rv) ==
  UpTo(Implementers(a), rv, IF Policy(a) THEN {Value, Raise} ELSE {Raise})

\* The dispatch meets an implementation that raises.
MeetsRaise(a, rv) ==
  /\ Len(MustCall(a, rv)) > 0
  /\ rv[MustCall(a, rv)[Len(MustCall(a, rv))]] = Raise

C12_RaiseSurfaces ==
  IsDispatch =>
    /\ SeqRange(Implementers(op.hook)) = DOMAIN op.rv
    /\ MeetsRaise(op.hook, op.rv) =>
         /\ ret.kind = "raise"
         /\ ret.val = MustCall(op.hook, op.rv)[Len(MustCall(op.hook, op.rv))]
         /\ ret.called = MustCall(op.hook, op.rv)

\* C12: when an implementation raises during a dispatch, the dispatch ends
\* with the error of that implementation and no result, the implementations
\* after it in dispatch order are not called, and the manager's tables and
\* every HookCaller are as before the dispatch.
C12_RaisePropagates ==
  /\ []C12_RaiseSurfaces
  /\ [][op'.op = "dispatch" => pm' = pm]_vars

\* Collect-all over p2, p1, p3 (dispatch order): p2 returns a value, p1
\* raises; the dispatch raises p1's error and p3 is never called.
C12_Witness ==
  /\ IsDispatch /\ op.hook = "h" /\ ~pm.hook["h"].firstresult
  /\ regOrder = <<"p3", "p1", "p2">>
  /\ op.rv["p2"] = Value /\ op.rv["p1"] = Raise
  /\ ret.kind = "raise" /\ ret.val = "p1" /\ ret.called = <<"p2", "p1">>

\* The plugin object an unregister call is aimed at: the plugin argument if
\* given, else whatever the name is bound to.
Target(M, plugin, name) ==
  IF plugin # None THEN plugin
  ELSE IF name # None /\ name \in DOMAIN M.name2plugin THEN M.name2plugin[name]
  ELSE None

\* C13: an unregister whose target is not a currently registered plugin
\* changes nothing: neither table, no HookCaller.
C13_UnresolvedUnregisterNoOp ==
  [][(op'.op = "unregister"
        /\ ~is_registered(pm, Target(pm, op'.plugin, op'.name)))
     => /\ pm'.name2plugin = pm.name2plugin
        /\ pm'.plugin2name = pm.plugin2name
        /\ \A a \in DOMAIN pm.hook :
             /\ a \in DOMAIN pm'.hook
             /\ pm'.hook[a].hookimpls = pm.hook[a].hookimpls]_vars

\* C14: a firstresult dispatch calls no implementation after one has returned
\* non-null; a collect-all dispatch that returns has called every
\* implementation of the list exactly once.
C14_ShortCircuit ==
  IsDispatch =>
    /\ SeqRange(Implementers(op.hook)) = DOMAIN op.rv
    /\ pm.hook[op.hook].firstresult =>
         /\ ret.called = UpTo(Implementers(op.hook), op.rv, {Value, Raise})
         /\ \A i \in 1..(Len(ret.called) - 1) : op.rv[ret.called[i]] = None
    /\ (~pm.hook[op.hook].firstresult /\ ret.kind = "list") =>
         /\ ret.called = Implementers(op.hook)
         /\ Cardinality(SeqRange(ret.called)) = Len(ret.called)
         /\ Len(ret.called) = Len(pm.hook[op.hook].hookimpls)

\* Firstresult over p2, p1, p3 (dispatch order): p2 returns null, p1 and p3
\* would both return a value; p1's is returned and p3 is not called.
C14_Witness ==
  /\ IsDispatch /\ op.hook = "h" /\ pm.hook["h"].firstresult
  /\ regOrder = <<"p3", "p1", "p2">>
  /\ op.rv = [p \in Plugins |-> IF p = "p2" THEN None ELSE Value]
  /\ ret.kind = "value" /\ ret.val = "r_p1" /\ ret.called = <<"p2", "p1">>

\* C15: every record a HookCaller holds belongs to a currently registered
\* plugin that marks that hook name, carries that plugin's registered name,
\* and is the only record of that plugin in the HookCaller.
C15_RecordsOfRegisteredPlugins ==
  \A a \in DOMAIN pm.hook :
    /\ \A i \in 1..Len(pm.hook[a].hookimpls) :
         /\ is_registered(pm, pm.hook[a].hookimpls[i].plugin)
         /\ a \in Marked[pm.hook[a].hookimpls[i].plugin]
         /\ pm.hook[a].hookimpls[i].plugin_name =
              pm.plugin2name[pm.hook[a].hookimpls[i].plugin]
    /\ Cardinality(SeqRange(Owners(pm.hook[a]))) = Len(pm.hook[a].hookimpls)

\* p3 has just been unregistered: hook g, which only p3 implemented, is empty
\* and hook h holds the records of the two plugins still registered.
C15_Witness ==
  /\ op.op = "unregister" /\ ret.changed = {"p3"}
  /\ Owners(pm.hook["g"]) = <<>>
  /\ Owners(pm.hook["h"]) = <<"p1", "p2">>

\* C17: the name table and the identity table are inverse of each other: a
\* plugin is registered exactly if the name table binds a name to it, and
\* that name is the one the identity table records for it.
C17_TablesInverse ==
  /\ \A p \in Plugins :
       is_registered(pm, p) <=> (\E n \in DOMAIN pm.name2plugin :
                                    pm.name2plugin[n] = p)
  /\ \A n \in DOMAIN pm.name2plugin :
       /\ is_registered(pm, pm.name2plugin[n])
       /\ pm.plugin2name[pm.name2plugin[n]] = n

\* C11: every implementation a dispatch calls is handed, if its argnames is a
\* list of names, exactly the supplied keyword arguments whose key is in the
\* list (other keys dropped, listed keys that were not supplied left out), and
\* if its argnames is ACCEPT_ALL, the full set of supplied keyword arguments.
C11_ArgumentFiltering ==
  IsDispatch =>
    /\ DOMAIN kw.received = SeqRange(ret.called)
    /\ \A i \in 1..Len(pm.hook[op.hook].hookimpls) :
         LET impl == pm.hook[op.hook].hookimpls[i]
             got == kw.received[impl.plugin]
         IN impl.plugin \in SeqRange(ret.called) =>
              /\ impl.argnames.accept_all => got = kw.kwargs
              /\ ~impl.argnames.accept_all =>
                   /\ DOMAIN got = DOMAIN kw.kwargs
                                     \cap SeqRange(impl.argnames.names)
                   /\ \A k \in DOMAIN got : got[k] = kw.kwargs[k]

\* h is dispatched with x=1, y=2: p1 (argnames x, z) is handed x=1 only, p2
\* (argnames self, y) y=2 only, p3 (ACCEPT_ALL) both.
C11_Witness ==
  /\ IsDispatch /\ op.hook = "h"
  /\ kw.kwargs = [k \in Keys |-> IF k = "x" THEN 1 ELSE 2]
  /\ DOMAIN kw.received = Plugins
  /\ kw.received["p1"] = [k \in {"x"} |-> 1]
  /\ kw.received["p2"] = [k \in {"y"} |-> 2]
  /\ kw.received["p3"] = kw.kwargs
  /\ ImplOf(pm.hook["h"], "p1").argnames = ArgNames(<<"x", "z">>)
  /\ ImplOf(pm.hook["h"], "p2").argnames = ArgNames(<<"self", "y">>)
  /\ ImplOf(pm.hook["h"], "p3").argnames = ACCEPT_ALL

\* The entry points of a loader call that are of the group asked for, load,
\* and whose name no plugin held when the call began.
Effective(M, group, failing) ==
  SelectSeq(EntryPoints(failing),
            LAMBDA e : e.group = group /\ ~e.fails
                       /\ e.name \notin DOMAIN M.name2plugin)

\* C16: an entry point that fails to load, or whose name is already a
\* registered plugin name, leaves nothing behind and is not counted, and the
\* entry points after it are still processed: the call ends in the state and
\* with the count it would have without those entry points, and every name
\* binding, registration, record and distribution-info entry it adds comes
\* from an entry point that loaded.
C16_FailedLoadAllOrNothing ==
  [][op'.op = "load" =>
       LET eff == Effective(pm, op'.group, op'.fails)
           r == LoadLoop(eff, pm, 1, op'.group, 0, <<>>)
           objs == {eff[i].obj : i \in 1..Len(eff)}
           added == Len(pm'.plugin_distinfo) - Len(pm.plugin_distinfo)
       IN /\ pm' = r.pm
          /\ ret'.val = r.ret
          /\ ret'.val <= Len(eff)
          /\ added = ret'.val
          /\ SubSeq(pm'.plugin_distinfo, 1, Len(pm.plugin_distinfo))
               = pm.plugin_distinfo
          /\ \A i \in (Len(pm.plugin_distinfo) + 1)..Len(pm'.plugin_distinfo) :
               \E j \in 1..Len(eff) :
                 pm'.plugin_distinfo[i] = <<eff[j].obj, eff[j].dist>>
          /\ \A n \in DOMAIN pm'.name2plugin \ DOMAIN pm.name2plugin :
               \E j \in 1..Len(eff) :
                 eff[j].name = n /\ eff[j].obj = pm'.name2plugin[n]
          /\ ret'.changed \subseteq objs
          /\ \A a \in DOMAIN pm'.hook :
               \A k \in 1..Len(pm'.hook[a].hookimpls) :
                 \/ /\ a \in DOMAIN pm.hook
                    /\ k <= Len(pm.hook[a].hookimpls)
                    /\ pm'.hook[a].hookimpls[k] = pm.hook[a].hookimpls[k]
                 \/ pm'.hook[a].hookimpls[k].plugin \in objs]_vars

\* Group jac was loaded on a fresh manager with the first entry point (A)
\* failing: A is bound to nothing, the second entry point (B) was still loaded
\* and registered, and the count is 1.
C16_Witness ==
  /\ op.op = "load" /\ op.group = "jac" /\ op.fails = {1}
  /\ ret.val = 1 /\ ret.changed = {"p1"}
  /\ DOMAIN pm.name2plugin = {"B"} /\ pm.name2plugin["B"] = "p1"
  /\ pm.plugin_distinfo = << <<"p1", "d1">> >>
  /\ regOrder = <<"p1">>

\* C19: a second loader call right after a first one, for the same group and
\* with every entry point loading as before, returns 0 and changes nothing.
C19_LoaderIdempotent ==
  [][(op.op = "load" /\ op'.op = "load"
        /\ op'.group = op.group /\ op'.fails = op.fails)
     => (ret'.val = 0 /\ pm' = pm)]_vars

IsPrefix(s, t) == Len(s) <= Len(t) /\ \A i \in 1..Len(s) : s[i] = t[i]

C18_CallsFollowSnapshot ==
  /\ run.pc = "impl" =>
       /\ Len(run.called) > 0
       /\ IsPrefix(run.called, LatestFirst(run.start))
       /\ DOMAIN run.outs = {run.called[i] : i \in 1..(Len(run.called) - 1)}
  /\ \A a \in DOMAIN pm.hook :
       Owners(pm.hook[a]) = SelectSeq(regOrder, LAMBDA p : a \in Marked[p])

\* C18: a dispatch calls the implementations that were in the list when it
\* began, latest registration first, each at most once, whatever plugins the
\* implementations register or unregister meanwhile: the plugins it has called
\* are always a prefix of that list reversed, it ends exactly where a dispatch
\* over that list ends (list exhausted, first non-null result of a firstresult
\* hook, or an error), and the HookCaller's own list follows every
\* registration at once, so that the next dispatch starts from it.
C18_DispatchSnapshot ==
  /\ []C18_CallsFollowSnapshot
  /\ [][(run.pc = "impl" /\ run'.pc = "idle")
        => LET ps == LatestFirst(run.start)
               stops == IF run.firstresult THEN {Value, Raise} ELSE {Raise}
           IN /\ IsPrefix(ret'.called, ps)
              /\ DOMAIN op'.rv = SeqRange(ret'.called)
              /\ \A i \in 1..(Len(ret'.called) - 1) :
                   op'.rv[ret'.called[i]] \notin stops
              /\ \/ op'.rv[ret'.called[Len(ret'.called)]] \in stops
                 \/ ret'.called = ps]_vars
  /\ [][(run.pc = "idle" /\ run'.pc = "impl")
        => /\ run'.start = Owners(pm.hook[run'.hook])
           /\ run'.called = <<run'.start[Len(run'.start)]>>]_vars

\* A dispatch of h began with p1 and p2 registered; p2's implementation, called
\* first, unregistered p1 and registered p3.  p1 is called all the same (it is
\* running now) and p3, now in the HookCaller's list, is not.
C18_Witness ==
  /\ run.pc = "impl" /\ run.hook = "h"
  /\ run.start = <<"p1", "p2">>
  /\ run.called = <<"p2", "p1">>
  /\ Owners(pm.hook["h"]) = <<"p2", "p3">>
  /\ ~is_registered(pm, "p1")

TypeOK ==
  /\ DOMAIN pm.name2plugin \subseteq Names
  /\ DOMAIN pm.plugin2name \subseteq Plugins
  /\ DOMAIN pm.hook \subseteq Hooks
====
